---------------------------- MODULE Spec2Model ----------------------------
(***************************************************************************)
(* State-machine model of the fwtool.py driver (src/fwtool.py): the        *)
(* unpack command (detector chain, the installer/DAT/FDAT/dump/bootloader/ *)
(* WBI pipelines, the recursive tree writer) and the pack command.         *)
(* The codecs of the fwtool package (pe, zip, dat, fdat, flash,            *)
(* bootloader, wbi, archive) are called by the driver; their results are   *)
(* inputs of the driver and are drawn from small sets, and each of them    *)
(* may raise.                                                              *)
(***************************************************************************)
EXTENDS Integers, Sequences, FiniteSets, TLC

(***************************************************************************)
(* Bounds of the model.                                                    *)
(***************************************************************************)
\* deepest writeFileTree nesting that is explored
MaxDepth == 4
\* most entries a flash dump / bootloader / warm boot image yields
MaxEntries == 1
\* most detectors an input matches at once
MaxMatches == 2

(***************************************************************************)
(* Python values that reach the configuration record.                      *)
(***************************************************************************)
PyNone == [t |-> "none"]
PyStr(s) == [t |-> "str", v |-> s]
PyBool(b) == [t |-> "bool", v |-> b]
PyInt(n) == [t |-> "int", v |-> n]
PyFloat(s) == [t |-> "float", v |-> s]
PyList(l) == [t |-> "list", v |-> l]
PyTuple(l) == [t |-> "tuple", v |-> l]
PyDict(d) == [t |-> "dict", v |-> d]

\* Python truth value, as `if fdatConf:` / `if datConf:` / `if fsFile` test it
Truthy(x) ==
  CASE x.t = "none" -> FALSE
    [] x.t = "dict" -> DOMAIN x.v # {}
    [] x.t = "list" -> x.v # <<>>
    [] x.t = "tuple" -> x.v # <<>>
    [] x.t = "bool" -> x.v
    [] x.t = "int" -> x.v # 0
    [] x.t = "str" -> x.v # ""
    [] OTHER -> TRUE

(***************************************************************************)
(* YAML: writeYaml (yaml.dump with the driver's representers) and          *)
(* yaml.safe_load.  A document is a tree of nodes; a scalar node carries   *)
(* its text and whether the emitter quoted it.                             *)
(***************************************************************************)
\* the type the YAML implicit resolver gives a plain (unquoted) scalar
ImplicitTag(text) ==
  CASE text \in {"null", "~", ""} -> "null"
    [] text \in {"true", "false", "yes", "no", "on", "off"} -> "bool"
    [] text \in {"1.00", "2.50"} -> "float"
    [] OTHER -> "str"

\* representInt: '0x%X' % data if data >= 10 else data
RepresentInt(n) ==
  [k |-> "scalar", tag |-> "int", text |-> [base |-> IF n >= 10 THEN 16 ELSE 10, digits |-> n],
   quoted |-> FALSE]

RepresentStr(s) ==
  [k |-> "scalar", tag |-> "str", text |-> s, quoted |-> ImplicitTag(s) # "str"]

RECURSIVE YamlDump(_)
YamlDump(x) ==
  CASE x.t = "none" -> [k |-> "scalar", tag |-> "null", text |-> "null", quoted |-> FALSE]
    [] x.t = "bool" -> [k |-> "scalar", tag |-> "bool",
                        text |-> IF x.v THEN "true" ELSE "false", quoted |-> FALSE]
    [] x.t = "int" -> RepresentInt(x.v)
    [] x.t = "str" -> RepresentStr(x.v)
    [] x.t = "float" -> [k |-> "scalar", tag |-> "float", text |-> x.v, quoted |-> FALSE]
    [] x.t \in {"list", "tuple"} ->
         [k |-> "seq", items |-> [i \in DOMAIN x.v |-> YamlDump(x.v[i])]]
    [] x.t = "dict" ->
         [k |-> "map", items |-> [key \in DOMAIN x.v |-> YamlDump(x.v[key])]]

RECURSIVE YamlLoad(_)
YamlLoad(n) ==
  CASE n.k = "seq" -> PyList([i \in DOMAIN n.items |-> YamlLoad(n.items[i])])
    [] n.k = "map" -> PyDict([key \in DOMAIN n.items |-> YamlLoad(n.items[key])])
    [] n.k = "scalar" /\ n.tag = "int" -> PyInt(n.text.digits)
    [] n.k = "scalar" /\ n.tag # "int" /\ n.quoted -> PyStr(n.text)
    [] OTHER ->
         CASE ImplicitTag(n.text) = "null" -> PyNone
           [] ImplicitTag(n.text) = "bool" -> PyBool(n.text \in {"true", "yes", "on"})
           [] ImplicitTag(n.text) = "float" -> PyFloat(n.text)
           [] OTHER -> PyStr(n.text)


(***************************************************************************)
(* Inputs.  Contents names the byte contents a file can have; IsArchive    *)
(* and ReadArchive give what the archive module answers for each of them. *)
(***************************************************************************)
Contents == {"plain", "tar", "nest", "self", "dup", "clash"}

\* archive.UnixFile, as far as the tree writer reads it
UnixFile(path, mode, contents, mtime) ==
  [path |-> path, mode |-> mode, contents |-> contents, mtime |-> mtime]

\* archive.isArchive on a file with contents c
IsArchive(c) == c \in {"tar", "nest", "self", "dup", "clash"}

\* archive.readArchive on a file with contents c
ReadArchive(c) ==
  CASE c = "tar" -> << UnixFile(<<"/d">>, "DIR", "plain", 5),
                       UnixFile(<<"/d", "/f">>, "REG", "plain", 5),
                       UnixFile(<<"/lnk">>, "LNK", "plain", 5) >>
    [] c = "nest" -> << UnixFile(<<"/inner">>, "REG", "tar", 6) >>
    [] c = "self" -> << UnixFile(<<"/self">>, "REG", "self", 7) >>
    [] c = "dup" -> << UnixFile(<<"/x">>, "REG", "nest", 8),
                       UnixFile(<<"/x">>, "REG", "plain", 8) >>
    [] c = "clash" -> << UnixFile(<<"/x">>, "DIR", "plain", 9),
                         UnixFile(<<"/x">>, "REG", "plain", 9) >>
    [] OTHER -> << >>

\* mutant: the FDAT test placed before the DAT test
DetectOrderFdatFirst == << "exe", "fdat", "dat", "dump", "boot", "wbi" >>

\* the detectors of unpackCommand, in the order of its if/elif chain
DetectOrder == << "exe", "dat", "fdat", "dump", "boot", "wbi" >>

Detectors == { DetectOrder[i] : i \in DOMAIN DetectOrder }

\* the scheme identifiers fdat.decryptFdat can return
CrypterNames == {"scheme-A", "scheme-B"}

\* dat.readDat results, as far as unpackDat reads them
DatSamples ==
  { [normalUsbDescriptors |-> PyList(<< PyTuple(<< PyInt(1356), PyInt(1) >>) >>),
     updaterUsbDescriptors |-> PyList(<< >>),
     isLens |-> PyBool(l)] : l \in BOOLEAN }

\* fdat.readFdat results (metadata), as far as unpackFdat reads them
FdatSamples ==
  { [model |-> PyInt(16), region |-> PyInt(0), version |-> PyStr("1.00"),
     isAccessory |-> PyBool(a)] : a \in {FALSE} }

(***************************************************************************)
(* Paths are sequences of tokens: the output directory, "/name" tokens and *)
(* the "_unpacked" suffix; string concatenation is sequence concatenation. *)
(***************************************************************************)
OutDir == << "out" >>

Put(f, key, val) == [x \in DOMAIN f \cup {key} |-> IF x = key THEN val ELSE f[x]]

\* os.path.dirname of a path whose last token is a "/name" token
Dirname(p) == SubSeq(p, 1, Len(p) - 1)

\* the directories os.makedirs(p) would have to exist or create: p and its parents
Ancestors(p) ==
  { SubSeq(p, 1, n) : n \in { m \in 1..Len(p) : m = Len(p) \/ p[m + 1] # "_unpacked" } }

\* mkdirs: os.makedirs with OSError swallowed
Mkdirs(dirset, fileset, p) ==
  IF \E a \in Ancestors(p) : a \in fileset THEN dirset ELSE dirset \cup Ancestors(p)

\* open(name, 'w') / open(name, 'w+b'): the files exist and are empty
Create(f, names) == [x \in DOMAIN f \cup names |-> IF x \in names THEN "empty" ELSE f[x]]

\* a file handle; scoped when it was opened by a with statement
Handle(path, scoped) == [name |-> path, scoped |-> scoped]

\* one codec call, with the argument or result that matters
Call(op, arg) == [op |-> op, arg |-> arg]

VARIABLES
  cmd,        \* command being run: "none", "unpack", "pack"
  pc,         \* position in the command
  matches,    \* the detectors that answer true for the input file
  det,        \* index in DetectOrder of the next detector to consult
  consulted,  \* detectors consulted so far, in order
  pipe,       \* pipeline selected by unpackCommand
  mtime,      \* local mtime of unpackCommand
  datConf,    \* local datConf
  fdatConf,   \* local fdatConf
  fdatContents, \* local fdatContents of unpackFdat (metadata)
  codecs,     \* codec calls so far, in order
  open,       \* file handles currently open
  stack,      \* writeFileTree activations, outermost first
  files,      \* regular files on disk: path -> contents
  dirs,       \* directories on disk
  configYaml, \* config.yaml in the output directory
  bootYaml,   \* TRUE once bootfiles.yaml is written
  err,        \* exception that ended the command, or "none"
  args        \* arguments of packCommand

vars == << cmd, pc, matches, det, consulted, pipe, mtime, datConf, fdatConf, fdatContents,
           codecs, open, stack, files, dirs, configYaml, bootYaml, err, args >>

unpackVars == << matches, det, consulted, pipe, mtime, fdatContents >>

Absent == [k |-> "absent"]
NoArgs == [firmwareFile |-> FALSE, fsFile |-> FALSE, bodyFile |-> FALSE, unedited |-> FALSE]

Init ==
  /\ cmd = "none"
  /\ pc = "idle"
  /\ matches = {}
  /\ det = 1
  /\ consulted = << >>
  /\ pipe = "none"
  /\ mtime = 0
  /\ datConf = PyNone
  /\ fdatConf = PyNone
  /\ fdatContents = PyNone
  /\ codecs = << >>
  /\ open = {}
  /\ stack = << >>
  /\ files = << >>
  /\ dirs = {}
  /\ configYaml = Absent
  /\ bootYaml = FALSE
  /\ err = "none"
  /\ args = NoArgs

\* an exception propagates out of the command: every with block on the way
\* closes its file, activations are discarded
Raise(e) ==
  /\ pc' = "failed"
  /\ err' = e
  /\ open' = { h \in open : ~h.scoped }
  /\ stack' = << >>


(***************************************************************************)
(* unpackCommand                                                           *)
(***************************************************************************)
\* main: `unpack -f inFile -o outDir`; mkdirs(outDir), mtime = os.stat(...)
StartUnpack ==
  /\ pc = "idle"
  /\ cmd = "none"
  /\ \E m \in SUBSET Detectors :
       /\ Cardinality(m) <= MaxMatches
       /\ matches' = m
  /\ cmd' = "unpack"
  /\ pc' = "detect"
  /\ det' = 1
  /\ mtime' = 1
  /\ dirs' = Mkdirs(dirs, DOMAIN files, OutDir)
  /\ UNCHANGED << consulted, pipe, datConf, fdatConf, fdatContents, codecs, open, stack,
                  files, configYaml, bootYaml, err, args >>

\* the handles the branch of a detector opens before it calls its codecs
BranchHandles(d) ==
  CASE d = "exe" -> { Handle(OutDir \o <<"/firmware.dat">>, TRUE),
                      Handle(OutDir \o <<"/firmware.fdat">>, TRUE) }
    [] d = "dat" -> { Handle(OutDir \o <<"/firmware.fdat">>, TRUE) }
    [] OTHER -> {}

\* a detector of the if/elif chain answers true: its branch is entered
DetectMatch ==
  /\ pc = "detect"
  /\ det <= Len(DetectOrder)
  /\ DetectOrder[det] \in matches
  /\ consulted' = Append(consulted, DetectOrder[det])
  /\ pipe' = DetectOrder[det]
  /\ open' = open \cup BranchHandles(DetectOrder[det])
  /\ files' = Create(files, { h.name : h \in BranchHandles(DetectOrder[det]) })
  /\ pc' = DetectOrder[det]
  /\ UNCHANGED << cmd, matches, det, mtime, datConf, fdatConf, fdatContents, codecs, stack,
                  dirs, configYaml, bootYaml, err, args >>

\* a detector answers false and another one follows
DetectMiss ==
  /\ pc = "detect"
  /\ det < Len(DetectOrder)
  /\ DetectOrder[det] \notin matches
  /\ consulted' = Append(consulted, DetectOrder[det])
  /\ det' = det + 1
  /\ UNCHANGED << cmd, pc, matches, pipe, mtime, datConf, fdatConf, fdatContents, codecs,
                  open, stack, files, dirs, configYaml, bootYaml, err, args >>

\* mutant: the last branch is an else, taken without asking wbi.isWbi to agree
UnknownFileTypeAsWbi ==
  /\ pc = "detect"
  /\ det = Len(DetectOrder)
  /\ DetectOrder[det] \notin matches
  /\ consulted' = Append(consulted, DetectOrder[det])
  /\ pipe' = "wbi"
  /\ pc' = "wbi"
  /\ UNCHANGED << cmd, matches, det, mtime, datConf, fdatConf, fdatContents, codecs, open,
                  stack, files, dirs, configYaml, bootYaml, err, args >>

\* mutant: no raise in the else branch, the command goes on to config.yaml
UnknownFileTypeFallsThrough ==
  /\ pc = "detect"
  /\ det = Len(DetectOrder)
  /\ DetectOrder[det] \notin matches
  /\ consulted' = Append(consulted, DetectOrder[det])
  /\ pc' = "config"
  /\ UNCHANGED << cmd, matches, det, pipe, mtime, datConf, fdatConf, fdatContents, codecs,
                  open, stack, files, dirs, configYaml, bootYaml, err, args >>

\* the last detector answers false: raise Exception('Unknown file type!')
UnknownFileType ==
  /\ pc = "detect"
  /\ det = Len(DetectOrder)
  /\ DetectOrder[det] \notin matches
  /\ consulted' = Append(consulted, DetectOrder[det])
  /\ Raise("Unknown file type!")
  /\ UNCHANGED << cmd, matches, det, pipe, mtime, datConf, fdatConf, fdatContents, codecs,
                  files, dirs, configYaml, bootYaml, args >>

\* the calls of unpackInstaller, in order
InstallerCalls == << Call("readExe", "-"), Call("readZip", "-"), Call("findDat", "-") >>

\* unpackInstaller returns zippedDatFile.mtime
UnpackInstaller ==
  /\ pc = "exe"
  /\ codecs' = codecs \o InstallerCalls
  /\ mtime' = 2
  /\ files' = Put(files, OutDir \o <<"/firmware.dat">>, "plain")
  /\ pc' = "dat"
  /\ UNCHANGED << cmd, matches, det, consulted, pipe, datConf, fdatConf, fdatContents, open,
                  stack, dirs, configYaml, bootYaml, err, args >>

\* one of the calls of unpackInstaller raises
UnpackInstallerRaise ==
  /\ pc = "exe"
  /\ \E n \in 1..Len(InstallerCalls) : codecs' = codecs \o SubSeq(InstallerCalls, 1, n)
  /\ Raise("CodecError")
  /\ UNCHANGED << cmd, matches, det, consulted, pipe, mtime, datConf, fdatConf, fdatContents,
                  files, dirs, configYaml, bootYaml, args >>

\* mutant: the first registered scheme is recorded, not the one that decrypted
DatConfOfFirstScheme(c, crypterName) ==
  PyDict([normalUsbDescriptors |-> c.normalUsbDescriptors,
          updaterUsbDescriptors |-> c.updaterUsbDescriptors,
          isLens |-> c.isLens,
          crypterName |-> PyStr("scheme-A")])

\* unpackDat: the dict it returns, for DAT contents c and the scheme decryptFdat returned
DatConfOf(c, crypterName) ==
  PyDict([normalUsbDescriptors |-> c.normalUsbDescriptors,
          updaterUsbDescriptors |-> c.updaterUsbDescriptors,
          isLens |-> c.isLens,
          crypterName |-> PyStr(crypterName)])

UnpackDat ==
  /\ pc = "dat"
  /\ \E c \in DatSamples, crypterName \in CrypterNames :
       /\ codecs' = codecs \o << Call("readDat", "-"), Call("decryptFdat", crypterName) >>
       /\ datConf' = DatConfOf(c, crypterName)
  /\ files' = Put(files, OutDir \o <<"/firmware.fdat">>, "plain")
  /\ pc' = "fdat"
  /\ UNCHANGED << cmd, matches, det, consulted, pipe, mtime, fdatConf, fdatContents, open,
                  stack, dirs, configYaml, bootYaml, err, args >>

\* dat.readDat or fdat.decryptFdat raises
UnpackDatRaise ==
  /\ pc = "dat"
  /\ \/ codecs' = Append(codecs, Call("readDat", "-"))
     \/ codecs' = codecs \o << Call("readDat", "-"), Call("decryptFdat", "-") >>
  /\ Raise("CodecError")
  /\ UNCHANGED << cmd, matches, det, consulted, pipe, mtime, datConf, fdatConf, fdatContents,
                  files, dirs, configYaml, bootYaml, args >>

\* toUnixFile: a regular file
ToUnixFile(path, contents, mt) == UnixFile(<< path >>, "REG", contents, mt)


(***************************************************************************)
(* writeFileTree.  An activation holds its list `files` (entries with the  *)
(* path still relative), the loop it is in and the index of the entry the  *)
(* loop is at; written, tested and mset record what the three loops did.   *)
(***************************************************************************)
\* a for loop that has run out of entries gives way to the next one
Norm(f) ==
  LET a == IF f.phase = "write" /\ f.i > Len(f.files)
             THEN [f EXCEPT !.phase = "recurse", !.i = 1] ELSE f
      b == IF a.phase = "recurse" /\ a.i > Len(a.files)
             THEN [a EXCEPT !.phase = "mtime", !.i = 1] ELSE a
  IN IF b.phase = "mtime" /\ b.i > Len(b.files) THEN [b EXCEPT !.phase = "end"] ELSE b

\* writeFileTree(files, path) is entered
NewFrame(entries, path) ==
  Norm([path |-> path, files |-> entries, phase |-> "write", i |-> 1,
        written |-> {}, tested |-> {}, mset |-> {}])

Top == stack[Len(stack)]
SetTop(f) == [stack EXCEPT ![Len(stack)] = f]

\* fn of the entry the activation f is at: path + file.path
Fn(f) == f.path \o f.files[f.i].path

\* mutant: path + '_unpacked' instead of fn + '_unpacked'
UnpackedRootOfPath(fn) == Top.path \o << "_unpacked" >>

\* the root of the recursive call for the file fn
UnpackedRoot(fn) == fn \o << "_unpacked" >>

\* "# Write files": a directory entry, or an entry that is neither
WriteDir ==
  /\ pc = "tree" /\ stack # << >>
  /\ Top.phase = "write"
  /\ Top.files[Top.i].mode # "REG"
  /\ dirs' = IF Top.files[Top.i].mode = "DIR" THEN Mkdirs(dirs, DOMAIN files, Fn(Top)) ELSE dirs
  /\ stack' = SetTop(Norm([Top EXCEPT !.i = @ + 1,
                              !.written = IF Top.files[Top.i].mode = "DIR"
                                            THEN @ \cup {Top.i} ELSE @]))
  /\ UNCHANGED << cmd, pc, unpackVars, datConf, fdatConf, codecs, open, files, configYaml,
                  bootYaml, err, args >>

\* open(fn, 'wb') succeeds when fn is no directory and its directory exists
CanCreate(dirset, fn) == fn \notin dirset /\ Dirname(fn) \in dirset

\* "# Write files": a regular file
WriteFile ==
  /\ pc = "tree" /\ stack # << >>
  /\ Top.phase = "write"
  /\ Top.files[Top.i].mode = "REG"
  /\ LET made == Mkdirs(dirs, DOMAIN files, Dirname(Fn(Top))) IN
       /\ CanCreate(made, Fn(Top))
       /\ dirs' = made
  /\ files' = Put(files, Fn(Top), Top.files[Top.i].contents)
  /\ stack' = SetTop(Norm([Top EXCEPT !.i = @ + 1, !.written = @ \cup {Top.i}]))
  /\ UNCHANGED << cmd, pc, unpackVars, datConf, fdatConf, codecs, open, configYaml,
                  bootYaml, err, args >>

\* "# Write files": open(fn, 'wb') raises
WriteFileRaise ==
  /\ pc = "tree" /\ stack # << >>
  /\ Top.phase = "write"
  /\ Top.files[Top.i].mode = "REG"
  /\ LET made == Mkdirs(dirs, DOMAIN files, Dirname(Fn(Top))) IN
       /\ ~CanCreate(made, Fn(Top))
       /\ dirs' = made
  /\ Raise("IOError")
  /\ UNCHANGED << cmd, unpackVars, datConf, fdatConf, codecs, files, configYaml,
                  bootYaml, args >>

\* "# Recursion": an entry that is no regular file
RecurseSkip ==
  /\ pc = "tree" /\ stack # << >>
  /\ Top.phase = "recurse"
  /\ Top.files[Top.i].mode # "REG"
  /\ stack' = SetTop(Norm([Top EXCEPT !.i = @ + 1]))
  /\ UNCHANGED << cmd, pc, unpackVars, datConf, fdatConf, codecs, open, files, dirs,
                  configYaml, bootYaml, err, args >>

\* "# Recursion": the file on disk is no archive
RecurseNotArchive ==
  /\ pc = "tree" /\ stack # << >>
  /\ Top.phase = "recurse"
  /\ Top.files[Top.i].mode = "REG"
  /\ ~IsArchive(files[Fn(Top)])
  /\ codecs' = Append(codecs, Call("isArchive", "False"))
  /\ stack' = SetTop(Norm([Top EXCEPT !.i = @ + 1, !.tested = @ \cup {Top.i}]))
  /\ UNCHANGED << cmd, pc, unpackVars, datConf, fdatConf, open, files, dirs, configYaml,
                  bootYaml, err, args >>

\* mutant: the recursive call is handed the list of the level itself
RecurseIntoSameFiles ==
  /\ pc = "tree" /\ stack # << >>
  /\ Len(stack) < MaxDepth
  /\ Top.phase = "recurse"
  /\ Top.files[Top.i].mode = "REG"
  /\ IsArchive(files[Fn(Top)])
  /\ open' = open \cup { Handle(Fn(Top), TRUE) }
  /\ codecs' = codecs \o << Call("isArchive", "True"), Call("readArchive", "-") >>
  /\ stack' = Append(SetTop([Top EXCEPT !.tested = @ \cup {Top.i}]),
                     NewFrame(Top.files, UnpackedRoot(Fn(Top))))
  /\ UNCHANGED << cmd, pc, unpackVars, datConf, fdatConf, files, dirs, configYaml,
                  bootYaml, err, args >>

\* mutant: the mtime of the file is set before it is unpacked
RecurseIntoAfterMtime ==
  /\ pc = "tree" /\ stack # << >>
  /\ Len(stack) < MaxDepth
  /\ Top.phase = "recurse"
  /\ Top.files[Top.i].mode = "REG"
  /\ IsArchive(files[Fn(Top)])
  /\ open' = open \cup { Handle(Fn(Top), TRUE) }
  /\ codecs' = codecs \o << Call("isArchive", "True"), Call("readArchive", "-") >>
  /\ stack' = Append(SetTop([Top EXCEPT !.tested = @ \cup {Top.i}, !.mset = @ \cup {Top.i}]),
                     NewFrame(ReadArchive(files[Fn(Top)]), UnpackedRoot(Fn(Top))))
  /\ UNCHANGED << cmd, pc, unpackVars, datConf, fdatConf, files, dirs, configYaml,
                  bootYaml, err, args >>

\* "# Recursion": the file on disk is an archive; writeFileTree is called for it
\* (the test of an archive at depth MaxDepth is not explored)
RecurseInto ==
  /\ pc = "tree" /\ stack # << >>
  /\ Len(stack) < MaxDepth
  /\ Top.phase = "recurse"
  /\ Top.files[Top.i].mode = "REG"
  /\ IsArchive(files[Fn(Top)])
  /\ open' = open \cup { Handle(Fn(Top), TRUE) }
  /\ codecs' = codecs \o << Call("isArchive", "True"), Call("readArchive", "-") >>
  /\ stack' = Append(SetTop([Top EXCEPT !.tested = @ \cup {Top.i}]),
                     NewFrame(ReadArchive(files[Fn(Top)]), UnpackedRoot(Fn(Top))))
  /\ UNCHANGED << cmd, pc, unpackVars, datConf, fdatConf, files, dirs, configYaml,
                  bootYaml, err, args >>

\* "# Recursion": archive.readArchive raises
RecurseRaise ==
  /\ pc = "tree" /\ stack # << >>
  /\ Len(stack) < MaxDepth
  /\ Top.phase = "recurse"
  /\ Top.files[Top.i].mode = "REG"
  /\ IsArchive(files[Fn(Top)])
  /\ codecs' = codecs \o << Call("isArchive", "True"), Call("readArchive", "-") >>
  /\ Raise("CodecError")
  /\ UNCHANGED << cmd, unpackVars, datConf, fdatConf, files, dirs, configYaml,
                  bootYaml, args >>

\* "# Set mtimes"
SetMtime ==
  /\ pc = "tree" /\ stack # << >>
  /\ Top.phase = "mtime"
  /\ stack' = SetTop(Norm([Top EXCEPT !.i = @ + 1,
                              !.mset = IF Top.files[Top.i].mode \in {"DIR", "REG"}
                                         THEN @ \cup {Top.i} ELSE @]))
  /\ UNCHANGED << cmd, pc, unpackVars, datConf, fdatConf, codecs, open, files, dirs,
                  configYaml, bootYaml, err, args >>

\* a recursive writeFileTree returns: the with block of the caller closes
\* dstFile and the caller's loop goes on
ReturnFrame ==
  /\ pc = "tree"
  /\ Len(stack) > 1
  /\ Top.phase = "end"
  /\ LET parent == stack[Len(stack) - 1] IN
       /\ open' = open \ { Handle(Fn(parent), TRUE) }
       /\ stack' = Append(SubSeq(stack, 1, Len(stack) - 2),
                          Norm([parent EXCEPT !.i = @ + 1]))
  /\ UNCHANGED << cmd, pc, unpackVars, datConf, fdatConf, codecs, files, dirs,
                  configYaml, bootYaml, err, args >>


(***************************************************************************)
(* The pipelines of unpackCommand that end in writeFileTree.               *)
(***************************************************************************)
\* unpackFdat: fdat.readFdat, then writeFileTree of the two blobs
UnpackFdat ==
  /\ pc = "fdat"
  /\ MaxDepth >= 1
  /\ \E c \in FdatSamples, firmware \in Contents, fs \in {"plain", "tar"} :
       /\ fdatContents' = PyDict(c)
       /\ stack' = << NewFrame(<< ToUnixFile("/firmware.tar", firmware, mtime),
                                  ToUnixFile("/updater.img", fs, mtime) >>, OutDir) >>
  /\ codecs' = Append(codecs, Call("readFdat", "-"))
  /\ pc' = "tree"
  /\ UNCHANGED << cmd, matches, det, consulted, pipe, mtime, datConf, fdatConf, open, files,
                  dirs, configYaml, bootYaml, err, args >>

\* fdat.readFdat raises
UnpackFdatRaise ==
  /\ pc = "fdat"
  /\ codecs' = Append(codecs, Call("readFdat", "-"))
  /\ Raise("CodecError")
  /\ UNCHANGED << cmd, unpackVars, datConf, fdatConf, files, dirs, configYaml,
                  bootYaml, args >>

\* '/nflasha%d' % i
NflashaName(i) ==
  CASE i = 0 -> "/nflasha0" [] i = 1 -> "/nflasha1" [] i = 2 -> "/nflasha2" [] OTHER -> "/nflasha3"

\* '/' + f.name
BootName(i) ==
  CASE i = 1 -> "/boot1" [] i = 2 -> "/boot2" [] i = 3 -> "/boot3" [] OTHER -> "/boot4"

\* '/0x%08x.dat' % c.physicalAddr
WbiName(i) ==
  CASE i = 1 -> "/0x00000001.dat" [] i = 2 -> "/0x00000002.dat" [] i = 3 -> "/0x00000003.dat"
    [] OTHER -> "/0x00000004.dat"

\* unpackDump: flash.readPartitionTable, then writeFileTree of the partitions
UnpackDump ==
  /\ pc = "dump"
  /\ MaxDepth >= 1
  /\ \E n \in 0..MaxEntries : \E f \in [1..n -> Contents] :
       stack' = << NewFrame([i \in 1..n |-> ToUnixFile(NflashaName(i - 1), f[i], mtime)],
                            OutDir) >>
  /\ codecs' = Append(codecs, Call("readPartitionTable", "-"))
  /\ pc' = "tree"
  /\ UNCHANGED << cmd, unpackVars, datConf, fdatConf, open, files, dirs, configYaml,
                  bootYaml, err, args >>

\* unpackBootloader: bootloader.readBootloader, then writeFileTree of the entries
UnpackBootloader ==
  /\ pc = "boot"
  /\ MaxDepth >= 1
  /\ \E n \in 0..MaxEntries : \E f \in [1..n -> {"plain", "nest"}] :
       stack' = << NewFrame([i \in 1..n |-> ToUnixFile(BootName(i), f[i], mtime)], OutDir) >>
  /\ codecs' = Append(codecs, Call("readBootloader", "-"))
  /\ pc' = "tree"
  /\ UNCHANGED << cmd, unpackVars, datConf, fdatConf, open, files, dirs, configYaml,
                  bootYaml, err, args >>

\* unpackWbi: wbi.readWbi, then writeFileTree of the chunks
UnpackWbi ==
  /\ pc = "wbi"
  /\ MaxDepth >= 1
  /\ \E n \in 0..MaxEntries : \E f \in [1..n -> {"plain", "nest"}] :
       stack' = << NewFrame([i \in 1..n |-> ToUnixFile(WbiName(i), f[i], mtime)], OutDir) >>
  /\ codecs' = Append(codecs, Call("readWbi", "-"))
  /\ pc' = "tree"
  /\ UNCHANGED << cmd, unpackVars, datConf, fdatConf, open, files, dirs, configYaml,
                  bootYaml, err, args >>

\* the codec a dump, bootloader or warm boot image pipeline starts with
Reader(p) ==
  CASE p = "dump" -> "readPartitionTable" [] p = "boot" -> "readBootloader" [] OTHER -> "readWbi"

\* flash.readPartitionTable, bootloader.readBootloader or wbi.readWbi raises
UnpackReaderRaise ==
  /\ pc \in {"dump", "boot", "wbi"}
  /\ codecs' = Append(codecs, Call(Reader(pc), "-"))
  /\ Raise("CodecError")
  /\ UNCHANGED << cmd, unpackVars, datConf, fdatConf, files, dirs, configYaml,
                  bootYaml, args >>

\* the outermost writeFileTree returns to its pipeline, and the pipeline to
\* unpackCommand: unpackFdat returns its dict, the with block of the branch ends
TreeDone ==
  /\ pc = "tree"
  /\ Len(stack) = 1
  /\ Top.phase = "end"
  /\ stack' = << >>
  /\ fdatConf' = IF pipe \in {"exe", "dat", "fdat"} THEN fdatContents ELSE fdatConf
  /\ open' = open \ BranchHandles(pipe)
  /\ pc' = IF pipe = "boot" THEN "bootyaml" ELSE "config"
  /\ UNCHANGED << cmd, unpackVars, datConf, codecs, files, dirs, configYaml, bootYaml,
                  err, args >>

\* unpackBootloader writes bootfiles.yaml
WriteBootYaml ==
  /\ pc = "bootyaml"
  /\ bootYaml' = TRUE
  /\ files' = Create(files, { OutDir \o <<"/bootfiles.yaml">> })
  /\ pc' = "config"
  /\ UNCHANGED << cmd, unpackVars, datConf, fdatConf, codecs, open, stack, dirs,
                  configYaml, err, args >>

\* the configuration record unpackCommand hands to writeYaml
ConfigRecord(d, f) == PyDict([dat |-> d, fdat |-> f])

\* with open(outDir + '/config.yaml', 'w') as yamlFile: writeYaml(...)
WriteConfig ==
  /\ pc = "config"
  /\ configYaml' = YamlDump(ConfigRecord(datConf, fdatConf))
  /\ files' = Create(files, { OutDir \o <<"/config.yaml">> })
  /\ pc' = "done"
  /\ UNCHANGED << cmd, unpackVars, datConf, fdatConf, codecs, open, stack, dirs,
                  bootYaml, err, args >>


(***************************************************************************)
(* packCommand                                                             *)
(***************************************************************************)
EmptyDict == PyDict([x \in {} |-> PyNone])

\* configuration files a user may hand to pack, other than an unedited config.yaml
PackConfigs ==
  { YamlDump(ConfigRecord(d, f)) :
      d \in {PyNone, EmptyDict} \cup { DatConfOf(c, n) : c \in DatSamples, n \in {"scheme-B"} },
      f \in {PyNone, EmptyDict} \cup { PyDict(c) : c \in FdatSamples } }

\* main: `pack -c configFile [-u updaterFile | -b updaterBodyFile] [-f firmwareFile]`,
\* and the start of packCommand: mkdirs, yaml.safe_load, config['dat'], config['fdat']
StartPack ==
  /\ \/ pc = "idle" /\ cmd = "none"
     \/ pc = "done" /\ cmd = "unpack"
  /\ \E firmwareFile \in BOOLEAN, fsFile \in BOOLEAN, bodyFile \in BOOLEAN, own \in BOOLEAN :
       /\ ~(fsFile /\ bodyFile)
       /\ own => configYaml # Absent
       /\ \E doc \in IF own THEN {configYaml} ELSE PackConfigs :
            /\ datConf' = YamlLoad(doc).v.dat
            /\ fdatConf' = YamlLoad(doc).v.fdat
       /\ args' = [firmwareFile |-> firmwareFile, fsFile |-> fsFile, bodyFile |-> bodyFile,
                   unedited |-> own]
  /\ cmd' = "pack"
  /\ pc' = "pack_fs"
  /\ dirs' = Mkdirs(dirs, DOMAIN files, OutDir)
  /\ UNCHANGED << unpackVars, codecs, open, stack, files, configYaml, bootYaml, err >>

\* `if not fsFile and bodyFile:` holds: the updater file system is packed
PackCramfs ==
  /\ pc = "pack_fs"
  /\ ~args.fsFile /\ args.bodyFile
  /\ open' = open \cup { Handle(OutDir \o <<"/updater_packed.img">>, FALSE) }
  /\ files' = Create(files, { OutDir \o <<"/updater_packed.img">> })
  /\ codecs' = Append(codecs, Call("writeCramfs", "-"))
  /\ args' = [args EXCEPT !.fsFile = TRUE]
  /\ pc' = "pack_fdat"
  /\ UNCHANGED << cmd, unpackVars, datConf, fdatConf, stack, dirs, configYaml, bootYaml, err >>

\* archive.cramfs.writeCramfs raises
PackCramfsRaise ==
  /\ pc = "pack_fs"
  /\ ~args.fsFile /\ args.bodyFile
  /\ pc' = "failed"
  /\ err' = "CodecError"
  /\ open' = { h \in open \cup { Handle(OutDir \o <<"/updater_packed.img">>, FALSE) } : ~h.scoped }
  /\ files' = Create(files, { OutDir \o <<"/updater_packed.img">> })
  /\ codecs' = Append(codecs, Call("writeCramfs", "-"))
  /\ UNCHANGED << cmd, unpackVars, datConf, fdatConf, stack, dirs, configYaml, bootYaml, args >>

\* `if not fsFile and bodyFile:` does not hold
PackNoCramfs ==
  /\ pc = "pack_fs"
  /\ ~(~args.fsFile /\ args.bodyFile)
  /\ pc' = "pack_fdat"
  /\ UNCHANGED << cmd, unpackVars, datConf, fdatConf, codecs, open, stack, files, dirs,
                  configYaml, bootYaml, err, args >>

\* `if fdatConf:` holds: firmware_packed.fdat is opened and fdat.writeFdat writes it
PackFdat ==
  /\ pc = "pack_fdat"
  /\ Truthy(fdatConf)
  /\ open' = open \cup { Handle(OutDir \o <<"/firmware_packed.fdat">>, TRUE) }
  /\ files' = Create(files, { OutDir \o <<"/firmware_packed.fdat">> })
  /\ codecs' = Append(codecs, Call("writeFdat", "-"))
  /\ pc' = "pack_enc"
  /\ UNCHANGED << cmd, unpackVars, datConf, fdatConf, stack, dirs, configYaml, bootYaml,
                  err, args >>

\* fdat.writeFdat raises
PackFdatRaise ==
  /\ pc = "pack_fdat"
  /\ Truthy(fdatConf)
  /\ files' = Create(files, { OutDir \o <<"/firmware_packed.fdat">> })
  /\ codecs' = Append(codecs, Call("writeFdat", "-"))
  /\ Raise("CodecError")
  /\ UNCHANGED << cmd, unpackVars, datConf, fdatConf, dirs, configYaml, bootYaml, args >>

\* mutant: `if datConf:` is not nested in `if fdatConf:`
PackNoFdatThenDat ==
  /\ pc = "pack_fdat"
  /\ ~Truthy(fdatConf)
  /\ pc' = "pack_enc"
  /\ UNCHANGED << cmd, unpackVars, datConf, fdatConf, codecs, open, stack, files, dirs,
                  configYaml, bootYaml, err, args >>

\* `if fdatConf:` does not hold
PackNoFdat ==
  /\ pc = "pack_fdat"
  /\ ~Truthy(fdatConf)
  /\ pc' = "pack_ret"
  /\ UNCHANGED << cmd, unpackVars, datConf, fdatConf, codecs, open, stack, files, dirs,
                  configYaml, bootYaml, err, args >>

\* the scheme packCommand hands to fdat.encryptFdat: datConf['crypterName']
CrypterArg(d) == d.v.crypterName.v

\* `if datConf:` holds: fdat.encryptFdat
PackEncrypt ==
  /\ pc = "pack_enc"
  /\ Truthy(datConf)
  /\ codecs' = Append(codecs, Call("encryptFdat", CrypterArg(datConf)))
  /\ pc' = "pack_dat"
  /\ UNCHANGED << cmd, unpackVars, datConf, fdatConf, open, stack, files, dirs, configYaml,
                  bootYaml, err, args >>

\* fdat.encryptFdat raises
PackEncryptRaise ==
  /\ pc = "pack_enc"
  /\ Truthy(datConf)
  /\ codecs' = Append(codecs, Call("encryptFdat", CrypterArg(datConf)))
  /\ Raise("CodecError")
  /\ UNCHANGED << cmd, unpackVars, datConf, fdatConf, files, dirs, configYaml, bootYaml, args >>

\* `if datConf:` does not hold: the with block of firmware_packed.fdat ends
PackNoDat ==
  /\ pc = "pack_enc"
  /\ ~Truthy(datConf)
  /\ open' = open \ { Handle(OutDir \o <<"/firmware_packed.fdat">>, TRUE) }
  /\ pc' = "pack_ret"
  /\ UNCHANGED << cmd, unpackVars, datConf, fdatConf, codecs, stack, files, dirs, configYaml,
                  bootYaml, err, args >>

\* firmware_packed.dat is opened, dat.writeDat writes it, both with blocks end
PackDat ==
  /\ pc = "pack_dat"
  /\ files' = Create(files, { OutDir \o <<"/firmware_packed.dat">> })
  /\ codecs' = Append(codecs, Call("writeDat", "-"))
  /\ open' = open \ { Handle(OutDir \o <<"/firmware_packed.fdat">>, TRUE) }
  /\ pc' = "pack_ret"
  /\ UNCHANGED << cmd, unpackVars, datConf, fdatConf, stack, dirs, configYaml, bootYaml,
                  err, args >>

\* dat.writeDat raises
PackDatRaise ==
  /\ pc = "pack_dat"
  /\ files' = Create(files, { OutDir \o <<"/firmware_packed.dat">> })
  /\ codecs' = Append(codecs, Call("writeDat", "-"))
  /\ Raise("CodecError")
  /\ UNCHANGED << cmd, unpackVars, datConf, fdatConf, dirs, configYaml, bootYaml, args >>

\* packCommand returns.  No statement closes a file that was opened without a
\* with block; the interpreter may or may not have reclaimed it by now.
PackReturn ==
  /\ pc = "pack_ret"
  /\ \E reclaimed \in BOOLEAN :
       open' = IF reclaimed THEN { h \in open : h.scoped } ELSE open
  /\ pc' = "done"
  /\ UNCHANGED << cmd, unpackVars, datConf, fdatConf, codecs, stack, files, dirs, configYaml,
                  bootYaml, err, args >>

Next ==
  \/ StartUnpack \/ DetectMatch \/ DetectMiss \/ UnknownFileType
  \/ UnpackInstaller \/ UnpackInstallerRaise \/ UnpackDat \/ UnpackDatRaise
  \/ UnpackFdat \/ UnpackFdatRaise \/ UnpackDump \/ UnpackBootloader \/ UnpackWbi
  \/ UnpackReaderRaise
  \/ WriteDir \/ WriteFile \/ WriteFileRaise \/ RecurseSkip \/ RecurseNotArchive
  \/ RecurseInto \/ RecurseRaise \/ SetMtime \/ ReturnFrame \/ TreeDone
  \/ WriteBootYaml \/ WriteConfig
  \/ StartPack \/ PackCramfs \/ PackCramfsRaise \/ PackNoCramfs \/ PackFdat \/ PackFdatRaise
  \/ PackNoFdat \/ PackEncrypt \/ PackEncryptRaise \/ PackNoDat \/ PackDat \/ PackDatRaise
  \/ PackReturn

Spec == Init /\ [][Next]_vars

\* the steps of one unpack command
UnpackNext ==
  \/ StartUnpack \/ DetectMatch \/ DetectMiss \/ UnknownFileType
  \/ UnpackInstaller \/ UnpackInstallerRaise \/ UnpackDat \/ UnpackDatRaise
  \/ UnpackFdat \/ UnpackFdatRaise \/ UnpackDump \/ UnpackBootloader \/ UnpackWbi
  \/ UnpackReaderRaise
  \/ WriteDir \/ WriteFile \/ WriteFileRaise \/ RecurseSkip \/ RecurseNotArchive
  \/ RecurseInto \/ RecurseRaise \/ SetMtime \/ ReturnFrame \/ TreeDone
  \/ WriteBootYaml \/ WriteConfig

\* one unpack command; the interpreter is single-threaded and keeps executing
\* the command until it returns or raises
UnpackFairSpec == Init /\ [][UnpackNext]_vars /\ WF_vars(UnpackNext)


(***************************************************************************)
(* Properties                                                              *)
(***************************************************************************)
\* the order of significance the detectors are to be consulted in
SignificanceOrder ==
  << "exe", "dat", "fdat", "dump", "boot", "wbi" >>

\* the codecs of the unpack pipeline of each format
PipelineCodecs(p) ==
  CASE p = "exe" -> {"readExe", "readZip", "findDat", "readDat", "decryptFdat", "readFdat"}
    [] p = "dat" -> {"readDat", "decryptFdat", "readFdat"}
    [] p = "fdat" -> {"readFdat"}
    [] p = "dump" -> {"readPartitionTable"}
    [] p = "boot" -> {"readBootloader"}
    [] p = "wbi" -> {"readWbi"}
    [] OTHER -> {}

FormatCodecs == UNION { PipelineCodecs(p) : p \in Detectors }

\* the calls of the codec op made so far
CallsOf(op) == { i \in DOMAIN codecs : codecs[i].op = op }

\* C1: the detectors are consulted in the order installer, DAT, FDAT, flash
\* dump, bootloader, warm boot image; consulting stops at the first one that
\* answers true, and only the codecs of that detector's pipeline are run,
\* also when the input matches a later detector too.
C1_FirstDetectorWins ==
  /\ Len(consulted) <= Len(SignificanceOrder)
  /\ \A i \in DOMAIN consulted :
       /\ consulted[i] = SignificanceOrder[i]
       /\ consulted[i] \in matches => i = Len(consulted)
  /\ \A i \in DOMAIN codecs :
       codecs[i].op \in FormatCodecs =>
         /\ pipe # "none"
         /\ codecs[i].op \in PipelineCodecs(pipe)
  /\ pipe # "none" =>
       /\ pipe = consulted[Len(consulted)]
       /\ pipe \in matches

\* C1 witness: an input that matches DAT and also the later FDAT detector has
\* been unpacked to the end by the DAT pipeline
C1_Witness ==
  /\ cmd = "unpack" /\ pc = "done"
  /\ matches = {"dat", "fdat"}
  /\ pipe = "dat"
  /\ CallsOf("decryptFdat") # {}

\* C2: the nesting depth of writeFileTree stays under a cap (here: any cap
\* below the depth the model explores), so that unpacking an archive that
\* contains itself is stopped by the cap.
C2_DepthCapped == Len(stack) < MaxDepth

\* C3: only regular entries that were written to disk are tested with
\* isArchive, every regular entry of a level has been tested when its loop is
\* over, and every nested writeFileTree is rooted at P + '_unpacked' for a
\* regular file P of the level above that tested true, with the entries
\* readArchive gave for P.
C3_RegularFilesRecursed ==
  \A k \in DOMAIN stack :
    LET f == stack[k]
        reg == { i \in DOMAIN f.files : f.files[i].mode = "REG" }
    IN /\ f.tested \subseteq reg
       /\ f.tested \subseteq f.written
       /\ \A i \in f.tested : (f.path \o f.files[i].path) \in DOMAIN files
       /\ f.phase = "recurse" => f.tested = { i \in reg : i < f.i \/ (i = f.i /\ k < Len(stack)) }
       /\ f.phase \in {"mtime", "end"} => f.tested = reg
       /\ k > 1 =>
            LET p == stack[k - 1]
                P == p.path \o p.files[p.i].path
            IN /\ p.phase = "recurse"
               /\ p.files[p.i].mode = "REG"
               /\ p.i \in p.tested
               /\ IsArchive(files[P])
               /\ f.path = P \o << "_unpacked" >>
               /\ f.files = ReadArchive(files[P])

\* C3 witness: a nested writeFileTree over an archive with a directory, a
\* regular file and another entry has finished its recursion loop
C3_Witness ==
  /\ Len(stack) >= 2
  /\ Top.phase = "mtime"
  /\ \E i \in DOMAIN Top.files : Top.files[i].mode = "DIR"
  /\ \E i \in DOMAIN Top.files : Top.files[i].mode = "LNK"
  /\ Top.tested # {}

\* C4: the crypterName of the configuration record unpack emits is the scheme
\* decryptFdat returned, encryptFdat is handed the crypterName of the
\* configuration record pack loaded, and so pack with the unedited
\* config.yaml encrypts with the scheme that decrypted.
C4_SameScheme ==
  /\ (cmd = "unpack" /\ datConf # PyNone) =>
       /\ CallsOf("decryptFdat") # {}
       /\ \A i \in CallsOf("decryptFdat") : datConf.v.crypterName = PyStr(codecs[i].arg)
  /\ (configYaml # Absent /\ CallsOf("decryptFdat") # {}) =>
       \A i \in CallsOf("decryptFdat") :
         YamlLoad(configYaml).v.dat.v.crypterName = PyStr(codecs[i].arg)
  /\ \A j \in CallsOf("encryptFdat") :
       /\ PyStr(codecs[j].arg) = datConf.v.crypterName
       /\ args.unedited =>
            /\ PyStr(codecs[j].arg) = YamlLoad(configYaml).v.dat.v.crypterName
            /\ \A i \in CallsOf("decryptFdat") : codecs[j].arg = codecs[i].arg

\* C4 witness: pack with the unedited configuration of an unpack that
\* decrypted with scheme-B has called encryptFdat
C4_Witness ==
  /\ cmd = "pack" /\ args.unedited
  /\ \E i \in CallsOf("decryptFdat") : codecs[i].arg = "scheme-B"
  /\ CallsOf("encryptFdat") # {}

\* C5: when no detector matches, unpackCommand has consulted all six, fails
\* with the unknown-file-type error, and has run no codec and written nothing.
C5_UnknownFileType ==
  (cmd = "unpack" /\ matches = {} /\ pc # "detect") =>
    /\ pc = "failed"
    /\ err = "Unknown file type!"
    /\ consulted = SignificanceOrder
    /\ codecs = << >>
    /\ pipe = "none"
    /\ configYaml = Absent
    /\ DOMAIN files = {}

\* C5 witness: an input no detector matches has been rejected
C5_Witness == cmd = "unpack" /\ matches = {} /\ pc = "failed" /\ Len(consulted) = 6

\* C6: when a command has returned or raised, no file handle it opened is
\* still open.
C6_HandlesReleased == pc \in {"done", "failed"} => open = {}

\* C7: encryptFdat is called only after writeFdat, writeDat only after
\* encryptFdat, and a DAT is written only when both the dat and the fdat
\* section of the configuration are present.
C7_BottomUp ==
  /\ \A j \in CallsOf("encryptFdat") : \E i \in CallsOf("writeFdat") : i < j
  /\ \A k \in CallsOf("writeDat") :
       \E j \in CallsOf("encryptFdat") : j < k /\ \E i \in CallsOf("writeFdat") : i < j
  /\ (CallsOf("writeDat") # {} \/ (OutDir \o <<"/firmware_packed.dat">>) \in DOMAIN files) =>
       /\ datConf.t = "dict" /\ DOMAIN datConf.v # {}
       /\ fdatConf.t = "dict" /\ DOMAIN fdatConf.v # {}

\* C7 witness: pack has written a DAT
C7_Witness == cmd = "pack" /\ pc = "done" /\ CallsOf("writeDat") # {}

\* no entry of a writeFileTree activation holds the archive that contains itself
FiniteNesting ==
  \A k \in DOMAIN stack : \A i \in DOMAIN stack[k].files : stack[k].files[i].contents # "self"

\* C8: writeFileTree over a tree of finite archive nesting comes to an end.
C8_Terminates == (pc = "tree" /\ FiniteNesting) ~> (pc # "tree")

\* C8 witness: the unpack of an archive nested in an archive has come to its
\* end: the innermost level found no archive and every level has returned
C8_Witness ==
  /\ pc = "config"
  /\ (OutDir \o <<"/firmware.tar", "_unpacked", "/inner", "_unpacked", "/d", "/f">>) \in DOMAIN files

\* C9: config.yaml exists only once unpackCommand has run its pipeline to the
\* end without an exception: a detector matched, every activation of the
\* tree writer has returned, and the command is done.
C9_ConfigLast ==
  cmd = "unpack" =>
    /\ (configYaml # Absent \/ (OutDir \o <<"/config.yaml">>) \in DOMAIN files) =>
         /\ pc = "done"
         /\ err = "none"
         /\ pipe \in matches
         /\ stack = << >>
    /\ pc = "failed" =>
         /\ configYaml = Absent
         /\ (OutDir \o <<"/config.yaml">>) \notin DOMAIN files

\* C9 witness: a codec raised after part of the tree had been written
C9_Witness ==
  /\ cmd = "unpack" /\ pc = "failed" /\ err = "CodecError"
  /\ (OutDir \o <<"/updater.img">>) \in DOMAIN files

\* C10: in an activation of writeFileTree every entry is written before any
\* entry is tested, and no mtime is set before every entry was tested and
\* every nested activation has returned.
C10_PhasesOrdered ==
  \A k \in DOMAIN stack :
    LET f == stack[k]
        reg == { i \in DOMAIN f.files : f.files[i].mode = "REG" }
        made == { i \in DOMAIN f.files : f.files[i].mode \in {"DIR", "REG"} }
    IN /\ f.tested # {} => f.written = made
       /\ f.mset # {} => (f.written = made /\ f.tested = reg /\ k = Len(stack))
       /\ k < Len(stack) => (f.written = made /\ f.mset = {})

\* C10 witness: a nested activation sets its mtimes while the level above is
\* still in its recursion loop
C10_Witness ==
  /\ Len(stack) >= 2
  /\ Top.mset # {}
  /\ stack[1].phase = "recurse"

=============================================================================
